---- MODULE Spec2Model ----
(***************************************************************************)
(* State-machine model of the TikTok OAuth callback flow:                  *)
(*   app/api/v1/endpoints/auth.py  (tiktok_authorize, tiktok_callback_      *)
(*                                  handler)                               *)
(*   app/core/cache.py             (CacheManager get / set / delete)       *)
(*   app/core/oauth.py             (TikTokOAuth2.get_access_token)         *)
(*   app/core/security.py          (TokenEncryption.encrypt)               *)
(*   app/models/token.py, user.py  (tokens and users tables)               *)
(*                                                                         *)
(* Requests are coroutines on one event loop.  A handler step is the code  *)
(* between two awaits that really suspend (database and HTTP I/O); the     *)
(* CacheManager coroutines never suspend, so they run inside the step of   *)
(* their caller.  A finished request leaves its parameters and response in *)
(* "last" until SendResponse hands the response to the client; nothing     *)
(* else is scheduled in between.  The store is the in-process map of CacheManager; Redis   *)
(* with SETEX / GET / DEL on a healthy connection answers the same.        *)
(*                                                                         *)
(* Encoding of Python values: None is -1; a str is a natural number with   *)
(* 0 the empty string, so that truthiness is "> 0"; state tokens, PKCE     *)
(* verifiers and authorization codes are numbered, a fresh random value    *)
(* being the next unused number.                                           *)
(***************************************************************************)
EXTENDS Integers, Sequences, FiniteSets, Bags, TLC

\* ---------------------------------------------------------------- bounds
\* registered users, and as many TikTok accounts
NumUsers == 2
\* authorization flows: states handed out, codes granted, callbacks admitted
MaxFlows == 2
\* callbacks that may be suspended at the same time
NumHandlers == 2
\* steps of the clock, each of one state lifetime
MaxTicks == 1
\* the longest text given to TokenEncryption
MaxText == 30
\* videos in a list given to AnalyticsService
MaxVideos == 3
\* the largest view count and like count of a generated video
MaxCount == 1
\* videos in a list given to calculate_growth_trends
MaxTrendVideos == 2
\* the latest day, counted from 1 January 1970, a video is created on
MaxDay == 4
\* rows of video_analytics a user has when recommendations are asked for
MaxRows == 10
\* calls of check_rate_limit
MaxCalls == 4
\* cursors of the provider's video list
MaxPages == 2
\* requests for videos (GET /tiktok/videos, POST /tiktok/sync)
MaxSyncs == 2
\* the latest time of a call of check_rate_limit
MaxTime == 3
\* the largest max_requests and window_seconds of a rate limit
MaxRequests == 2
MaxWindow == 2

\* ------------------------------------------------------- program constants
None == 0 - 1
STATE_TTL == 600
EXPIRES_IN == 7200
REFRESH_EXPIRES_IN == 86400
SECONDS_PER_DAY == 86400
RECOMMENDATION_DAYS == 30
LOW_ENGAGEMENT == 5
FEW_VIDEOS == 10
PAGE_SIZE == 20
SYNC_MAX_VIDEOS == 100
HTTP_200_OK == 200
HTTP_400_BAD_REQUEST == 400
HTTP_401_UNAUTHORIZED == 401
HTTP_404_NOT_FOUND == 404
HTTP_500_INTERNAL_SERVER_ERROR == 500
WRITE_KEY == 1
READ_KEY == 2

Users == 1..NumUsers
States == 1..MaxFlows
Codes == 1..MaxFlows
OpenIds == 1..NumUsers
Handlers == 1..NumHandlers
Methods == {"GET", "POST"}
Challenges == {0, 12345}
ErrorParams == {1}

VARIABLES now, cache, issued, users, tokens, used_codes, hs, last, redeemed, served,
          provider, args, result, video_analytics, sync, memory_store, redis_store, calls

vars == <<now, cache, issued, users, tokens, used_codes, hs, last, redeemed, served,
          provider, args, result, video_analytics, sync, memory_store, redis_store, calls>>

\* ------------------------------------------------------------ Python values
Truthy(x) == x > 0

\* a str value: plain text, or the output of Fernet under a key
Str(p) == [kind |-> "plain", key |-> 0, data |-> p]

\* (variant) the text is stored as it is
encrypt_plain(key, s) == s

\* TokenEncryption.encrypt: "" stays "", otherwise a Fernet token of the key
encrypt(key, s) ==
    IF ~Truthy(s.data) THEN Str(0)
    ELSE [kind |-> "fernet", key |-> key, data |-> s.data]

\* what Fernet.decrypt raises for a token of another key or for other text
InvalidToken == [kind |-> "InvalidToken", key |-> 0, data |-> 0]

\* (variant) the token is handed back as it is
decrypt_raw(key, s) == s

\* TokenEncryption.decrypt: "" stays "", a Fernet token of the key gives its
\* text, anything else raises
decrypt(key, s) ==
    IF ~Truthy(s.data) THEN Str(0)
    ELSE IF s.kind = "fernet" /\ s.key = key THEN Str(s.data)
    ELSE InvalidToken

\* -------------------------------------------------------------- CacheManager
\* (variant) a key that leaves the state out
cache_key_shared(state) == 1

\* cache_key = f"oauth_state:{state}": one key for each state
cache_key(state) == state

\* the value stored under the key
SessionData(user_id, code_verifier, created_at) ==
    [user_id |-> user_id, code_verifier |-> code_verifier, created_at |-> created_at]

NoSession == SessionData(None, None, None)

\* CacheManager.set: memory_cache[key] = (value, time.time() + expire);
\* Redis SETEX gives the key the same lifetime
cache_set(c, key, value, expire, t) ==
    [k \in DOMAIN c \cup {key} |->
        IF k = key
        THEN [value |-> value, expiry |-> IF Truthy(expire) THEN t + expire ELSE None]
        ELSE c[k]]

\* (variant) the expiry is never looked at
LiveForever(entry, t) == TRUE

\* does the entry still count at time t
Live(entry, t) == entry.expiry = None \/ entry.expiry > t

\* CacheManager.get, the value returned
cache_get(c, key, t) ==
    IF key \in DOMAIN c /\ Live(c[key], t) THEN c[key].value ELSE NoSession

\* (variant) a delete that leaves the entry in place
cache_delete_kept(c, key) == c

\* CacheManager.delete
cache_delete(c, key) == [k \in DOMAIN c \ {key} |-> c[k]]

\* CacheManager.get, the map it leaves: an expired entry is dropped on read
cache_after_get(c, key, t) ==
    IF key \in DOMAIN c /\ ~Live(c[key], t) THEN cache_delete(c, key) ELSE c

\* ------------------------------------------------------------------- OAuth
\* generate_pkce_pair: the fresh verifier made for the n-th authorization
code_verifier_for(state) == 100 + state

\* get_authorization_url: a fresh state, the first number not handed out yet
FreshStates == {s \in States : issued[s] = None /\ \A r \in States : r < s => issued[r] # None}

\* the provider's 200 body for an authorization code
TokenData(code, open_id) ==
    [access_token |-> Str(10 + code), refresh_token |-> Str(20 + code),
     open_id |-> open_id, scope |-> 1, expires_in |-> EXPIRES_IN,
     refresh_expires_in |-> REFRESH_EXPIRES_IN, token_type |-> "Bearer"]

\* a body in which every JSON key is missing
AbsentOf ==
    [access_token |-> [kind |-> "absent", key |-> 0, data |-> 0],
     refresh_token |-> [kind |-> "absent", key |-> 0, data |-> 0],
     open_id |-> 0 - 2, scope |-> 0 - 2, expires_in |-> 0 - 2,
     refresh_expires_in |-> 0 - 2, token_type |-> "absent"]

NoField == ""
TokenFields == DOMAIN AbsentOf

\* the body without one of its keys
Without(body, field) == [k \in DOMAIN body |-> IF k = field THEN AbsentOf[k] ELSE body[k]]

\* what pydantic raises for a missing required field
ValidationError == AbsentOf

\* (variant) a model in which every field has a default
TikTokTokenResponseLax(body) ==
    [k \in DOMAIN body |-> IF body[k] = AbsentOf[k] THEN TokenData(0, 0)[k] ELSE body[k]]

\* TikTokTokenResponse(**token_data): six required fields, token_type
\* defaults to "Bearer"
TikTokTokenResponse(body) ==
    IF \E k \in TokenFields \ {"token_type"} : body[k] = AbsentOf[k] THEN ValidationError
    ELSE [body EXCEPT !.token_type = IF body.token_type = AbsentOf.token_type THEN "Bearer"
                                     ELSE body.token_type]

\* the token endpoint: a code is honoured once
ProviderStatus(code, accepted, used) ==
    IF accepted /\ code \notin used THEN HTTP_200_OK ELSE HTTP_400_BAD_REQUEST

TokenError == TokenData(None, None)

\* (variant) the status of the answer is not checked
get_access_token_unchecked(status, body) == body

\* TikTokOAuth2.get_access_token: a non-200 answer raises, a 200 gives the body
get_access_token(status, body) == IF status # HTTP_200_OK THEN TokenError ELSE body

\* --------------------------------------------------------------- database
\* no Token object
NoRow == [user_id |-> None, token_type |-> "", access_token |-> Str(0),
          refresh_token |-> Str(0), expires_at |-> None, open_id |-> None,
          scopes |-> None, is_active |-> FALSE]

\* select(TokenModel).filter(user_id == user.id, token_type == "tiktok")
MatchingTokens(tbl, user_id) ==
    {i \in 1..Len(tbl) : tbl[i].user_id = user_id /\ tbl[i].token_type = "tiktok"}

\* Result.scalar_one_or_none: the row, 0 for no row, None for
\* MultipleResultsFound
scalar_one_or_none(rows) ==
    IF rows = {} THEN 0
    ELSE IF Cardinality(rows) = 1 THEN CHOOSE i \in rows : TRUE
    ELSE None

\* the Token object of the session after lines 233-255: the loaded row with
\* its six fields reassigned, or a new TokenModel
SessionToken(existing_snap, user_id, token_data, t) ==
    LET fresh == [user_id |-> user_id, token_type |-> "tiktok",
                  access_token |-> encrypt(WRITE_KEY, token_data.access_token),
                  refresh_token |-> encrypt(WRITE_KEY, token_data.refresh_token),
                  expires_at |-> t + token_data.expires_in,
                  open_id |-> token_data.open_id,
                  scopes |-> token_data.scope,
                  is_active |-> TRUE]
    IN IF existing_snap = NoRow THEN fresh
       ELSE [existing_snap EXCEPT !.access_token = fresh.access_token,
                                  !.refresh_token = fresh.refresh_token,
                                  !.expires_at = fresh.expires_at,
                                  !.open_id = fresh.open_id,
                                  !.scopes = fresh.scopes,
                                  !.is_active = TRUE]

\* (variant) the session always adds a new Token
flush_token_insert(tbl, existing, existing_snap, pending) == Append(tbl, pending)

\* the unit of work for the Token: INSERT of a new object, or UPDATE by
\* primary key of the columns whose value differs from the loaded one
flush_token(tbl, existing, existing_snap, pending) ==
    IF existing = 0 THEN Append(tbl, pending)
    ELSE [tbl EXCEPT ![existing] =
            [f \in DOMAIN pending |->
                IF pending[f] # existing_snap[f] THEN pending[f] ELSE tbl[existing][f]]]

\* "user.tiktok_open_id = tiktok_token.open_id", flushed if it changed
flush_user(tbl, user_id, user_snap, open_id) ==
    IF open_id # user_snap THEN [tbl EXCEPT ![user_id].tiktok_open_id = open_id] ELSE tbl

\* users.tiktok_open_id is unique=True (NULLs apart)
UniqueOpenId(tbl) ==
    \A u, v \in DOMAIN tbl :
        (u # v /\ tbl[u].tiktok_open_id # None) => tbl[u].tiktok_open_id # tbl[v].tiktok_open_id

\* ---------------------------------------------------------------- handlers
\* the locals of a callback coroutine when it is entered
EntryFrame ==
    [pc |-> "entry", code |-> None, state |-> None, user_id |-> None,
     code_verifier |-> None, user_snap |-> None, token_open_id |-> None,
     existing |-> 0, existing_snap |-> NoRow, pending |-> NoRow]

\* the coroutines suspended at an await are a bag of frames: two requests can
\* wait at the same line with the same locals
Put(b, f) == b (+) SetToBag({f})
Take(b, f) == b (-) SetToBag({f})
Resume(b, f, g) == Put(Take(b, f), g)

InFlight == BagToSet(hs)

\* no callback is suspended at an await
Quiet == hs = EmptyBag

\* a request with the query parameters FastAPI binds, and the response
\* (or HTTPException) it ended with
Response(method, code, state, error, challenge, status, message, echo) ==
    [method |-> method, code |-> code, state |-> state, error |-> error,
     challenge |-> challenge, status |-> status, message |-> message, echo |-> echo]

NoResponse == Response("", None, None, None, None, 0, "", None)

\* (variant) the challenge is tested for truth instead of "is not None"
BranchTruthyChallenge(method, code, state, error, challenge) ==
    IF method = "GET" /\ Truthy(challenge) THEN "challenge"
    ELSE IF method = "GET" /\ Truthy(code) /\ Truthy(state)
         THEN IF Truthy(error) THEN "oauth_error" ELSE "exchange"
         ELSE "active"

\* (variant) a code alone starts the OAuth flow
BranchCodeAlone(method, code, state, error, challenge) ==
    IF method = "GET" /\ challenge # None THEN "challenge"
    ELSE IF method = "GET" /\ Truthy(code)
         THEN IF Truthy(error) THEN "oauth_error" ELSE "exchange"
         ELSE "active"

\* (variant) the request method is not tested
BranchAnyMethod(method, code, state, error, challenge) ==
    IF challenge # None THEN "challenge"
    ELSE IF Truthy(code) /\ Truthy(state)
         THEN IF Truthy(error) THEN "oauth_error" ELSE "exchange"
         ELSE "active"

\* tiktok_callback_handler, the ordered guards of lines 189, 194, 197 and 271
Branch(method, code, state, error, challenge) ==
    IF method = "GET" /\ challenge # None THEN "challenge"
    ELSE IF method = "GET" /\ Truthy(code) /\ Truthy(state)
         THEN IF Truthy(error) THEN "oauth_error" ELSE "exchange"
         ELSE "active"

\* an exception raised inside the try block is caught by "except Exception",
\* HTTPException included, and re-raised as a 500 that quotes it
ExceptStatus(raised) == HTTP_500_INTERNAL_SERVER_ERROR

\* the response of an exchange-path callback with frame f that raised inside
\* the try
Failed(f, raised, message) ==
    Response("GET", f.code, f.state, None, None, ExceptStatus(raised), message, None)

\* Users, states not handed out, authorization codes and TikTok accounts are
\* interchangeable: a
\* request may name any value met before, or the first one not met yet.
FirstNew(all, known) == {x \in all \ known : \A y \in all \ known : x <= y}

\* the client of GET /auth/login/tiktok, which needs no login
Anonymous == 0

KnownUsers == {issued[s] : s \in States} \ {None, Anonymous}
KnownStates == {s \in States : issued[s] # None}
KnownCodes == used_codes \cup {f.code : f \in InFlight}
KnownOpenIds ==
    ({users[u].tiktok_open_id : u \in Users} \cup {tokens[i].open_id : i \in 1..Len(tokens)}
        \cup {f.token_open_id : f \in InFlight}) \ {None}

SomeUsers == KnownUsers \cup FirstNew(Users, KnownUsers)
SomeStates == KnownStates \cup FirstNew(States, KnownStates)
SomeCodes == KnownCodes \cup FirstNew(Codes, KnownCodes)
SomeOpenIds == KnownOpenIds \cup FirstNew(OpenIds, KnownOpenIds)

\* no call of a reader or of a pure function has been made
NoCall == [fn |-> ""]

\* the application after start-up: empty store, empty tables, no request
\* no sync request is running
NoSync == [pc |-> "idle"]

\* a rate-limit store without keys
NoTimes == [k \in {} |-> <<>>]

Boot ==
    /\ now = 0
    /\ cache = [k \in {} |-> 0]
    /\ issued = [s \in States |-> None]
    /\ users = [u \in Users |-> [tiktok_open_id |-> None]]
    /\ tokens = <<>>
    /\ used_codes = {}
    /\ hs = EmptyBag
    /\ last = NoResponse
    /\ redeemed = {}
    /\ served = 0
    /\ video_analytics = <<>>
    /\ sync = NoSync
    /\ memory_store = NoTimes
    /\ redis_store = NoTimes
    /\ calls = <<>>

Init ==
    /\ Boot
    /\ provider = [c \in Codes |-> NoField]
    /\ args = NoCall
    /\ result = NoCall

\* time.time() / datetime.utcnow() advance
Tick ==
    /\ last = NoResponse
    /\ now < MaxTicks * STATE_TTL
    /\ now' = now + STATE_TTL
    /\ UNCHANGED <<cache, issued, users, tokens, used_codes, hs, last, redeemed, served, provider, args, result,
                   video_analytics, sync, memory_store, redis_store, calls>>

\* GET /auth/tiktok/authorize for the authenticated user u
tiktok_authorize(u) ==
    \E state \in FreshStates :
        /\ last = NoResponse
        /\ cache' = cache_set(cache, cache_key(state),
                              SessionData(u, code_verifier_for(state), now), STATE_TTL, now)
        /\ issued' = [issued EXCEPT ![state] = u]
        /\ UNCHANGED <<now, users, tokens, used_codes, hs, last, redeemed, served, provider, args, result,
                   video_analytics, sync, memory_store, redis_store, calls>>

\* GET /auth/login/tiktok: a state from secrets.token_urlsafe goes into the
\* redirect URL; the handler does not touch the cache
login_tiktok ==
    \E state \in FreshStates :
        /\ last = NoResponse
        /\ issued' = [issued EXCEPT ![state] = Anonymous]
        /\ UNCHANGED <<now, cache, users, tokens, used_codes, hs, last, redeemed, served, provider, args, result,
                   video_analytics, sync, memory_store, redis_store, calls>>

\* tiktok_callback_handler from its entry to its first suspension:
\* the branches that answer at once, and the state lookup of the OAuth flow
CallbackStart(method, code, state, error, challenge) ==
    LET b == Branch(method, code, state, error, challenge)
        session_data == cache_get(cache, cache_key(state), now)
        Answer(status, message, echo) ==
            /\ last' = Response(method, code, state, error, challenge, status, message, echo)
            /\ hs' = hs
            /\ served' = served
    IN
    /\ last = NoResponse
    /\ IF b = "challenge" THEN
            /\ Answer(HTTP_200_OK, "challenge", challenge)
            /\ cache' = cache
       ELSE IF b = "oauth_error" THEN
            /\ Answer(HTTP_400_BAD_REQUEST, "TIKTOK_OAUTH_ERROR", None)
            /\ cache' = cache
       ELSE IF b = "active" THEN
            /\ Answer(HTTP_200_OK, "active", None)
            /\ cache' = cache
       ELSE
            /\ cache' = cache_after_get(cache, cache_key(state), now)
            /\ IF session_data = NoSession THEN
                    Answer(ExceptStatus(HTTP_400_BAD_REQUEST), "INVALID_OR_EXPIRED_STATE", None)
               ELSE IF ~Truthy(session_data.user_id) \/ ~Truthy(session_data.code_verifier) THEN
                    Answer(ExceptStatus(HTTP_400_BAD_REQUEST), "INVALID_SESSION_DATA", None)
               ELSE
                    /\ BagCardinality(hs) < NumHandlers
                    /\ served < MaxFlows
                    /\ hs' = Put(hs, [EntryFrame EXCEPT !.pc = "get_user", !.code = code,
                                                        !.state = state,
                                                        !.user_id = session_data.user_id,
                                                        !.code_verifier = session_data.code_verifier])
                    /\ last' = last
                    /\ served' = served + 1
    /\ UNCHANGED <<now, issued, users, tokens, used_codes, redeemed, provider, args, result,
                   video_analytics, sync, memory_store, redis_store, calls>>

\* "user = await db.get(UserModel, user_id)": the session loads the user row
GetUser(f) ==
    /\ last = NoResponse
    /\ BagIn(f, hs) /\ f.pc = "get_user"
    /\ IF f.user_id \in DOMAIN users THEN
            /\ hs' = Resume(hs, f, [f EXCEPT !.pc = "exchange",
                                             !.user_snap = users[f.user_id].tiktok_open_id])
            /\ last' = last
       ELSE
            /\ hs' = Take(hs, f)
            /\ last' = Failed(f, HTTP_404_NOT_FOUND, "User not found.")
    /\ UNCHANGED <<now, cache, issued, users, tokens, used_codes, redeemed, served, provider, args, result,
                   video_analytics, sync, memory_store, redis_store, calls>>

\* "token_data = await tiktok_oauth_client.get_access_token(...)" and the
\* TikTokTokenResponse built from it; the provider answers the POST with
\* status 200 for a code it accepts (open_id: the account that granted it)
Exchange(f, accepted, open_id) ==
    LET status == ProviderStatus(f.code, accepted, used_codes)
        body == Without(TokenData(f.code, open_id), provider[f.code])
        token_data == get_access_token(status, body)
        tiktok_token == TikTokTokenResponse(token_data)
    IN
    /\ last = NoResponse
    /\ BagIn(f, hs) /\ f.pc = "exchange"
    /\ IF token_data = TokenError THEN
            /\ hs' = Take(hs, f)
            /\ last' = Failed(f, HTTP_500_INTERNAL_SERVER_ERROR, "Token error")
            /\ used_codes' = used_codes
       ELSE IF tiktok_token = ValidationError THEN
            /\ hs' = Take(hs, f)
            /\ last' = Failed(f, HTTP_500_INTERNAL_SERVER_ERROR, "ValidationError")
            /\ used_codes' = used_codes \cup {f.code}
       ELSE
            /\ hs' = Resume(hs, f, [f EXCEPT !.pc = "select",
                                             !.token_open_id = tiktok_token.open_id])
            /\ last' = last
            /\ used_codes' = used_codes \cup {f.code}
    /\ UNCHANGED <<now, cache, issued, users, tokens, redeemed, served, provider, args, result,
                   video_analytics, sync, memory_store, redis_store, calls>>

\* "result = await db.execute(select(TokenModel)...)", scalar_one_or_none,
\* and the changes made to the session's objects up to "await db.commit()"
SelectToken(f) ==
    LET rows == MatchingTokens(tokens, f.user_id)
        existing_token == scalar_one_or_none(rows)
        snap == IF existing_token = 0 THEN NoRow ELSE tokens[existing_token]
        token_data == TikTokTokenResponse(Without(TokenData(f.code, f.token_open_id), provider[f.code]))
    IN
    /\ last = NoResponse
    /\ BagIn(f, hs) /\ f.pc = "select"
    /\ IF existing_token = None THEN
            /\ hs' = Take(hs, f)
            /\ last' = Failed(f, HTTP_500_INTERNAL_SERVER_ERROR, "MultipleResultsFound")
       ELSE
            /\ hs' = Resume(hs, f, [f EXCEPT !.pc = "commit",
                                             !.existing = existing_token,
                                             !.existing_snap = snap,
                                             !.pending = SessionToken(snap, f.user_id, token_data, now)])
            /\ last' = last
    /\ UNCHANGED <<now, cache, issued, users, tokens, used_codes, redeemed, served, provider, args, result,
                   video_analytics, sync, memory_store, redis_store, calls>>

\* "await db.commit()": the flush of the session and the commit, one transaction
Commit(f) ==
    LET new_users == flush_user(users, f.user_id, f.user_snap, f.token_open_id)
        new_tokens == flush_token(tokens, f.existing, f.existing_snap, f.pending)
    IN
    /\ last = NoResponse
    /\ BagIn(f, hs) /\ f.pc = "commit"
    /\ IF UniqueOpenId(new_users) THEN
            /\ users' = new_users
            /\ tokens' = new_tokens
            /\ hs' = Resume(hs, f, [f EXCEPT !.pc = "finish"])
            /\ last' = last
       ELSE
            /\ users' = users
            /\ tokens' = tokens
            /\ hs' = Take(hs, f)
            /\ last' = Failed(f, HTTP_500_INTERNAL_SERVER_ERROR, "IntegrityError")
    /\ UNCHANGED <<now, cache, issued, used_codes, redeemed, served, provider, args, result,
                   video_analytics, sync, memory_store, redis_store, calls>>

\* after the commit: "await cache_manager.delete(cache_key)" and the 200 answer
Finish(f) ==
    /\ last = NoResponse
    /\ BagIn(f, hs) /\ f.pc = "finish"
    /\ cache' = cache_delete(cache, cache_key(f.state))
    /\ redeemed' = redeemed \cup {f.state}
    /\ hs' = Take(hs, f)
    /\ last' = Response("GET", f.code, f.state, None, None, HTTP_200_OK, "connected", None)
    /\ UNCHANGED <<now, issued, users, tokens, used_codes, served, provider, args, result,
                   video_analytics, sync, memory_store, redis_store, calls>>

\* the response of the finished request goes out
SendResponse ==
    /\ last # NoResponse
    /\ last' = NoResponse
    /\ UNCHANGED <<now, cache, issued, users, tokens, used_codes, hs, redeemed, served, provider, args, result,
                   video_analytics, sync, memory_store, redis_store, calls>>

\* the authorizations and the steps of the callbacks in flight
Steps ==
    \/ SendResponse
    \/ \E u \in SomeUsers : tiktok_authorize(u)
    \/ \E f \in InFlight : GetUser(f)
    \/ \E f \in InFlight, accepted \in BOOLEAN, open_id \in SomeOpenIds : Exchange(f, accepted, open_id)
    \/ \E f \in InFlight : SelectToken(f)
    \/ \E f \in InFlight : Commit(f)
    \/ \E f \in InFlight : Finish(f)

\* the provider's redirect: GET with a code and a state
Redirect == \E code \in SomeCodes, state \in SomeStates : CallbackStart("GET", code, state, None, None)

\* redirects served one after the other, while users start authorizations
\* and the clock runs
Next ==
    \/ Steps
    \/ Tick
    \/ (Quiet /\ Redirect)

Spec == Init /\ [][Next]_vars

\* redirects that overlap freely
NextRace ==
    \/ Steps
    \/ Redirect

SpecRace == Init /\ [][NextRace]_vars

\* requests with any method and any query parameters, one callback at a time
NextDispatch ==
    \/ Steps
    \/ \E method \in Methods, code \in {None} \cup SomeCodes, state \in {None} \cup SomeStates,
          error \in {None} \cup ErrorParams, challenge \in {None} \cup Challenges :
            Quiet /\ CallbackStart(method, code, state, error, challenge)

SpecDispatch == Init /\ [][NextDispatch]_vars

\* both ways of starting an authorization, redirects served one after the
\* other
NextLogin ==
    \/ Steps
    \/ Tick
    \/ login_tiktok
    \/ (Quiet /\ Redirect)

SpecLogin == Init /\ [][NextLogin]_vars

\* ------------------------------------------------- malformed token bodies
\* the token endpoint answers the first authorization code with a body that
\* may lack one key
InitMalformed ==
    /\ Boot
    /\ \E field \in {NoField} \cup TokenFields :
            provider = [c \in Codes |-> IF c = 1 THEN field ELSE NoField]
    /\ args = NoCall
    /\ result = NoCall

NextMalformed ==
    \/ Steps
    \/ (Quiet /\ Redirect)

SpecMalformed == InitMalformed /\ [][NextMalformed]_vars

\* ------------------------------------------------------ reading the vault
Keys == {WRITE_KEY, READ_KEY}

\* select(Token).filter(user_id, token_type == "tiktok", is_active == True)
ActiveTokens(tbl, user_id) == {i \in MatchingTokens(tbl, user_id) : tbl[i].is_active}

\* (variant) the expiry is not compared
ExpiredNever(row, t) == FALSE

\* "token.expires_at and token.expires_at < datetime.utcnow()"
Expired(row, t) == row.expires_at # None /\ row.expires_at < t

\* no token is returned
NoToken == [kind |-> "none", key |-> 0, data |-> 0]

\* how a call of get_tiktok_token ends: the HTTPException or exception
\* raised, or the plaintext returned with status 200
Outcome(status, detail, token) ==
    [fn |-> "get_tiktok_token", status |-> status, detail |-> detail, token |-> token]

get_tiktok_token(tbl, user_id, t) ==
    LET token == scalar_one_or_none(ActiveTokens(tbl, user_id))
    IN IF token = None
       THEN Outcome(HTTP_500_INTERNAL_SERVER_ERROR, "MultipleResultsFound", NoToken)
       ELSE IF token = 0
       THEN Outcome(HTTP_400_BAD_REQUEST, "TikTok account not connected", NoToken)
       ELSE IF Expired(tbl[token], t)
       THEN Outcome(HTTP_401_UNAUTHORIZED, "TikTok token expired", NoToken)
       ELSE IF decrypt(READ_KEY, tbl[token].access_token) = InvalidToken
       THEN Outcome(HTTP_500_INTERNAL_SERVER_ERROR, "InvalidToken", NoToken)
       ELSE Outcome(HTTP_200_OK, "", decrypt(READ_KEY, tbl[token].access_token))

\* the Credential the callback of user u with authorization code "code"
\* writes at time w when the settings key is k
VaultRow(u, code, k, w) ==
    LET row == SessionToken(NoRow, u, TikTokTokenResponse(TokenData(code, u)), w)
    IN [row EXCEPT !.access_token = encrypt(k, TokenData(code, u).access_token),
                   !.refresh_token = encrypt(k, TokenData(code, u).refresh_token)]

WriteTimes == {k * STATE_TTL : k \in 0..MaxTicks}

\* the tables callbacks can leave behind, one row for each code redeemed
VaultTables ==
    UNION {{[i \in 1..n |-> VaultRow(p[i][1], i, p[i][2], p[i][3])] :
                p \in [1..n -> Users \X Keys \X WriteTimes]} : n \in 0..MaxFlows}

InitVault ==
    /\ now \in {EXPIRES_IN + w : w \in WriteTimes}
    /\ cache = [k \in {} |-> 0]
    /\ issued = [s \in States |-> None]
    /\ tokens \in VaultTables
    /\ users = [u \in Users |->
                  [tiktok_open_id |-> IF MatchingTokens(tokens, u) # {} THEN u ELSE None]]
    /\ used_codes = 1..Len(tokens)
    /\ hs = EmptyBag
    /\ last = NoResponse
    /\ redeemed = {}
    /\ served = Len(tokens)
    /\ provider = [c \in Codes |-> NoField]
    /\ args = NoCall
    /\ result = NoCall
    /\ video_analytics = <<>>
    /\ sync = NoSync
    /\ memory_store = NoTimes
    /\ redis_store = NoTimes
    /\ calls = <<>>

\* GET /tiktok/user/info (and /videos, /sync, /videos/fetch-insights) up to
\* the provider call: "access_token = await get_tiktok_token(current_user, db)"
get_user_info(u) ==
    /\ args' = [fn |-> "get_tiktok_token", user |-> u]
    /\ result' = get_tiktok_token(tokens, u, now)
    /\ UNCHANGED <<now, cache, issued, users, tokens, used_codes, hs, last, redeemed, served,
                   provider,
                   video_analytics, sync, memory_store, redis_store, calls>>

NextVault == \E u \in Users : get_user_info(u)

SpecVault == InitVault /\ [][NextVault]_vars

\* -------------------------------------------------------- TokenEncryption
Texts == 0..MaxText

InitCrypto ==
    /\ Boot
    /\ provider = [c \in Codes |-> NoField]
    /\ args \in {[fn |-> "encrypt", key |-> k, read_key |-> r, data |-> x] :
                    k \in Keys, r \in Keys, x \in Texts}
    /\ result = NoCall

\* a text is encrypted by one TokenEncryption instance and the outcome is
\* decrypted by an instance made with read_key
encrypt_decrypt ==
    /\ result = NoCall
    /\ result' = [fn |-> "encrypt",
                  encrypted |-> encrypt(args.key, Str(args.data)),
                  decrypted |-> decrypt(args.read_key, encrypt(args.key, Str(args.data)))]
    /\ UNCHANGED <<now, cache, issued, users, tokens, used_codes, hs, last, redeemed, served,
                   provider, args,
                   video_analytics, sync, memory_store, redis_store, calls>>

NextCrypto == encrypt_decrypt

SpecCrypto == InitCrypto /\ [][NextCrypto]_vars

\* --------------------------------------------------------- AnalyticsService
\* Python floats are modelled by exact fractions [n, d] with d > 0 in lowest
\* terms; round(x, 2) gives a whole number of hundredths.
RECURSIVE GCD(_, _)
GCD(a, b) == IF b = 0 THEN a ELSE GCD(b, a % b)

Abs(x) == IF x < 0 THEN 0 - x ELSE x

Frac(n, d) ==
    LET g == GCD(Abs(n), d) IN [n |-> n \div g, d |-> d \div g]

Zero == Frac(0, 1)
Add(x, y) == Frac(x.n * y.d + y.n * x.d, x.d * y.d)
Less(x, y) == x.n * y.d < y.n * x.d

\* round-half-even of n / d to a whole number
RoundHalfEven(n, d) ==
    LET q == n \div d
        r == n % d
    IN IF 2 * r < d THEN q
       ELSE IF 2 * r > d THEN q + 1
       ELSE IF q % 2 = 0 THEN q ELSE q + 1

\* round(x, 2), in hundredths
round2(x) == RoundHalfEven(100 * x.n, x.d)

\* round(x, 0)
round0(x) == RoundHalfEven(x.n, x.d)

\* sum(v.get(field, 0) for v in videos)
RECURSIVE SumField(_, _)
SumField(videos, field) ==
    IF videos = <<>> THEN 0
    ELSE videos[1][field] + SumField(Tail(videos), field)

\* (variant) the rate is taken over the likes alone
engagement_likes(video) == Frac(100 * video.like_count, video.view_count)

\* (like_count + comment_count + share_count) / views * 100
engagement(video) ==
    Frac(100 * (video.like_count + video.comment_count + video.share_count), video.view_count)

\* video["engagement_rate"] after the loop of lines 33-44
engagement_rate(video) == IF video.view_count > 0 THEN engagement(video) ELSE Zero

\* (variant) every video enters the list of rates
engagement_rates_all(videos) == [i \in 1..Len(videos) |-> engagement_rate(videos[i])]

\* the list engagement_rates: the rates of the videos with views > 0
RECURSIVE engagement_rates(_)
engagement_rates(videos) ==
    IF videos = <<>> THEN <<>>
    ELSE IF videos[1].view_count > 0
         THEN <<engagement(videos[1])>> \o engagement_rates(Tail(videos))
         ELSE engagement_rates(Tail(videos))

RECURSIVE SumFrac(_)
SumFrac(xs) == IF xs = <<>> THEN Zero ELSE Add(xs[1], SumFrac(Tail(xs)))

\* sum(xs) / len(xs) if xs else 0
Mean(xs) ==
    IF xs = <<>> THEN Zero
    ELSE LET s == SumFrac(xs) IN Frac(s.n, s.d * Len(xs))

\* (variant) max that keeps the last of equal keys
RECURSIVE MaxLast(_, _)
MaxLast(keys, i) ==
    IF i = 1 THEN 1
    ELSE LET m == MaxLast(keys, i - 1)
         IN IF Less(keys[i], keys[m]) THEN m ELSE i

\* max(videos, key=...): the index of the first video with the largest key
RECURSIVE MaxFirst(_, _)
MaxFirst(keys, i) ==
    IF i = 1 THEN 1
    ELSE LET m == MaxFirst(keys, i - 1)
         IN IF Less(keys[m], keys[i]) THEN i ELSE m

NoVideo == [id |-> None, view_count |-> None, engagement_rate |-> None]

calculate_engagement_metrics(videos) ==
    IF videos = <<>> THEN
        [total_videos |-> 0, total_views |-> 0, total_likes |-> 0, total_comments |-> 0,
         total_shares |-> 0, avg_engagement_rate |-> 0, avg_views_per_video |-> 0,
         most_viewed_video |-> NoVideo, best_engagement_video |-> NoVideo,
         engagement_rate |-> <<>>]
    ELSE
        LET total_views == SumField(videos, "view_count")
            rates == [i \in 1..Len(videos) |-> engagement_rate(videos[i])]
            views == [i \in 1..Len(videos) |-> Frac(videos[i].view_count, 1)]
            most_viewed == MaxFirst(views, Len(videos))
            best_engagement == MaxFirst(rates, Len(videos))
        IN [total_videos |-> Len(videos),
            total_views |-> total_views,
            total_likes |-> SumField(videos, "like_count"),
            total_comments |-> SumField(videos, "comment_count"),
            total_shares |-> SumField(videos, "share_count"),
            avg_engagement_rate |-> round2(Mean(engagement_rates(videos))),
            avg_views_per_video |-> round0(Frac(total_views, Len(videos))),
            most_viewed_video |->
                [id |-> videos[most_viewed].id,
                 view_count |-> videos[most_viewed].view_count,
                 engagement_rate |-> None],
            best_engagement_video |->
                [id |-> videos[best_engagement].id,
                 view_count |-> None,
                 engagement_rate |-> round2(rates[best_engagement])],
            engagement_rate |-> rates]

\* a video as the TikTok API lists it; its id is its place in the list
Video(id, views, likes, comments, shares) ==
    [id |-> id, view_count |-> views, like_count |-> likes,
     comment_count |-> comments, share_count |-> shares, create_time |-> 0]

Counts == 0..MaxCount

\* the three videos of test_get_analytics_summary
TestVideos ==
    <<Video(1, 1000, 100, 10, 5), Video(2, 2000, 200, 20, 10), Video(3, 3000, 300, 30, 15)>>

\* comment and share counts of a generated video
Extras == {<<0, 0>>, <<1, 0>>, <<0, 1>>}

\* the list with the counters p[i] for its i-th video
VideoList(p) ==
    [i \in DOMAIN p |-> Video(i, p[i][1], p[i][2], p[i][3][1], p[i][3][2])]

InitAnalytics ==
    /\ Boot
    /\ provider = [c \in Codes |-> NoField]
    /\ \/ args = [fn |-> "calculate_engagement_metrics", videos |-> TestVideos]
       \/ \E n \in 0..MaxVideos : \E p \in [1..n -> Counts \X Counts \X Extras] :
            args = [fn |-> "calculate_engagement_metrics", videos |-> VideoList(p)]
    /\ result = NoCall

\* GET /tiktok/analytics/summary: analytics_service.calculate_engagement_
\* metrics(video_data)
get_analytics_summary ==
    /\ result = NoCall
    /\ result' = [fn |-> args.fn, value |-> calculate_engagement_metrics(args.videos)]
    /\ UNCHANGED <<now, cache, issued, users, tokens, used_codes, hs, last, redeemed, served,
                   provider, args,
                   video_analytics, sync, memory_store, redis_store, calls>>

NextAnalytics == get_analytics_summary

SpecAnalytics == InitAnalytics /\ [][NextAnalytics]_vars

\* ------------------------------------------------- calculate_growth_trends
\* datetime.fromtimestamp(create_time).strftime("%Y-W%U") for a time in 1970
\* (UTC): 1 January 1970 is a Thursday, week 01 starts on Sunday 4 January
week_key(create_time) == ((create_time \div SECONDS_PER_DAY) + 4) \div 7

\* sorted(videos, key=create_time): stable insertion of the last video
RECURSIVE SortByTime(_)
SortByTime(videos) ==
    IF Len(videos) <= 1 THEN videos
    ELSE LET n == Len(videos)
             front == SortByTime(SubSeq(videos, 1, n - 1))
             k == Cardinality({i \in 1..(n - 1) : front[i].create_time <= videos[n].create_time})
         IN SubSeq(front, 1, k) \o <<videos[n]>> \o SubSeq(front, k + 1, n - 1)

\* the videos that enter a bucket: "if create_time:"
Bucketed(videos) == {i \in 1..Len(videos) : videos[i].create_time # 0}

\* weekly_data[week]
WeekData(videos, week) ==
    LET members == {i \in Bucketed(videos) : week_key(videos[i].create_time) = week}
        col(field) == [i \in 1..Len(videos) |-> IF i \in members THEN videos[i][field] ELSE 0]
        rate == [i \in 1..Len(videos) |-> IF i \in members THEN engagement_rate(videos[i]) ELSE Zero]
    IN [views |-> SumField([i \in 1..Len(videos) |-> [x |-> col("view_count")[i]]], "x"),
        engagement |-> SumFrac(rate),
        count |-> Cardinality(members)]

\* sorted(weekly_data.keys())
RECURSIVE SortedWeeks(_)
SortedWeeks(weeks) ==
    IF weeks = {} THEN <<>>
    ELSE LET w == CHOOSE x \in weeks : \A y \in weeks : x <= y
         IN <<w>> \o SortedWeeks(weeks \ {w})

\* "Remove zero values from the beginning"
RECURSIVE Strip(_)
Strip(values) ==
    IF values = <<>> THEN <<>>
    ELSE IF values[1].n > 0 THEN values
    ELSE Strip(Tail(values))

\* AnalyticsService._calculate_trend, as a fraction
calculate_trend(values) ==
    IF Len(values) < 2 THEN Zero
    ELSE LET non_zero_values == Strip(values)
             n == Len(non_zero_values)
             mid == n \div 2
             first == SumFrac(SubSeq(non_zero_values, 1, mid))
             second == SumFrac(SubSeq(non_zero_values, mid + 1, n))
             first_half_avg == IF mid > 0 THEN Frac(first.n, first.d * mid) ELSE Zero
             second_half_avg == IF n > mid THEN Frac(second.n, second.d * (n - mid)) ELSE Zero
         IN IF n < 2 THEN Zero
            ELSE IF first_half_avg.n = 0
                 THEN IF second_half_avg.n > 0 THEN Frac(100, 1) ELSE Zero
            ELSE Frac(100 * (second_half_avg.n * first_half_avg.d - first_half_avg.n * second_half_avg.d)
                            * first_half_avg.d,
                      second_half_avg.d * first_half_avg.d * first_half_avg.n)

calculate_growth_trends(videos) ==
    IF Len(videos) < 2 THEN
        [weekly_view_trend |-> 0, weekly_engagement_trend |-> 0,
         posting_frequency |-> 0, best_performing_week |-> None]
    ELSE
        LET sorted_videos == SortByTime(videos)
            weeks == {week_key(sorted_videos[i].create_time) : i \in Bucketed(sorted_videos)}
            sorted_weeks == SortedWeeks(weeks)
            n == Len(sorted_weeks)
            recent_weeks == IF n >= 4 THEN SubSeq(sorted_weeks, n - 3, n) ELSE sorted_weeks
            recent_views ==
                [k \in 1..Len(recent_weeks) |-> Frac(WeekData(sorted_videos, recent_weeks[k]).views, 1)]
            recent_engagement ==
                [k \in 1..Len(recent_weeks) |->
                    LET wd == WeekData(sorted_videos, recent_weeks[k])
                    IN IF wd.count > 0 THEN Frac(wd.engagement.n, wd.engagement.d * wd.count)
                       ELSE Zero]
            \* the dict keeps the weeks in the order of their first video
            week_views == [k \in 1..n |-> Frac(WeekData(sorted_videos, sorted_weeks[k]).views, 1)]
        IN [weekly_view_trend |->
                IF Len(recent_weeks) >= 2 THEN round2(calculate_trend(recent_views)) ELSE 0,
            weekly_engagement_trend |->
                IF Len(recent_weeks) >= 2 THEN round2(calculate_trend(recent_engagement)) ELSE 0,
            posting_frequency |-> IF n > 0 THEN round2(Frac(Len(videos), n)) ELSE 0,
            best_performing_week |->
                IF n > 0 THEN sorted_weeks[MaxFirst(week_views, n)] ELSE None]

Days == 0..MaxDay

\* the list with create day, views and likes p[i] for its i-th video
DatedList(p) ==
    [i \in DOMAIN p |->
        [Video(i, p[i][2], p[i][3], 0, 0) EXCEPT !.create_time = p[i][1] * SECONDS_PER_DAY]]

InitTrends ==
    /\ Boot
    /\ provider = [c \in Codes |-> NoField]
    /\ \E n \in 0..MaxTrendVideos : \E p \in [1..n -> Days \X Counts \X Counts] :
            args = [fn |-> "calculate_growth_trends", videos |-> DatedList(p)]
    /\ result = NoCall

\* GET /tiktok/analytics/summary: analytics_service.calculate_growth_trends(
\* video_data)
get_growth_trends ==
    /\ result = NoCall
    /\ result' = [fn |-> args.fn, value |-> calculate_growth_trends(args.videos)]
    /\ UNCHANGED <<now, cache, issued, users, tokens, used_codes, hs, last, redeemed, served,
                   provider, args,
                   video_analytics, sync, memory_store, redis_store, calls>>

NextTrends == get_growth_trends

SpecTrends == InitTrends /\ [][NextTrends]_vars

\* --------------------------------------------------- get_recommendations
\* a row of video_analytics as the endpoint reads it: video_created_at is the
\* age of the video in days (None for NULL), hour its hour of day, hashtags
\* the number of tags in its JSON list
Row(views, likes, age, hour, hashtags) ==
    [view_count |-> views, like_count |-> likes, comment_count |-> 0, share_count |-> 0,
     video_created_at |-> age, hour |-> hour, hashtags |-> hashtags]

\* select(VideoAnalytics).filter(video_created_at >= utcnow() - 30 days)
RECURSIVE recent(_)
recent(rows) ==
    IF rows = <<>> THEN <<>>
    ELSE IF rows[1].video_created_at # None /\ rows[1].video_created_at <= RECOMMENDATION_DAYS
         THEN <<rows[1]>> \o recent(Tail(rows))
         ELSE recent(Tail(rows))

\* the keys of best_hours in the order the loop inserts them
RECURSIVE HoursSeen(_)
HoursSeen(videos) ==
    IF videos = <<>> THEN <<>>
    ELSE LET front == HoursSeen(SubSeq(videos, 1, Len(videos) - 1))
             v == videos[Len(videos)]
         IN IF v.video_created_at = None \/ \E k \in 1..Len(front) : front[k] = v.hour
            THEN front
            ELSE Append(front, v.hour)

\* best_hours[hour]["total_views"] / best_hours[hour]["count"]
HourRatio(videos, hour) ==
    LET members == {i \in 1..Len(videos) :
                        videos[i].video_created_at # None /\ videos[i].hour = hour}
        views == [i \in 1..Len(videos) |->
                    [x |-> IF i \in members THEN videos[i].view_count ELSE 0]]
    IN Frac(SumField(views, "x"), Cardinality(members))

Message(kind, value) == [kind |-> kind, value |-> value]

\* (variant) the posting-frequency message is left out when the
\* low-engagement message was given
few_videos_unless_low(videos, low) ==
    IF Len(videos) < FEW_VIDEOS /\ ~low THEN <<Message("few_videos", Len(videos))>> ELSE <<>>

\* "if len(videos) < 10: recommendations.append(...)"
few_videos(videos, low) ==
    IF Len(videos) < FEW_VIDEOS THEN <<Message("few_videos", Len(videos))>> ELSE <<>>

\* the body of get_recommendations after its query
recommendations(rows) ==
    LET videos == recent(rows)
    IN IF videos = <<>> THEN
            [current_metrics |-> [avg_engagement_rate |-> 0, total_videos |-> 0],
             recommendations |-> <<Message("sync_account", 0)>>]
       ELSE
            LET total_engagement == SumFrac([i \in 1..Len(videos) |-> engagement_rate(videos[i])])
                avg_engagement == Frac(total_engagement.n, total_engagement.d * Len(videos))
                low == Less(avg_engagement, Frac(LOW_ENGAGEMENT, 1))
                hours == HoursSeen(videos)
                ratios == [k \in 1..Len(hours) |-> HourRatio(videos, hours[k])]
            IN [current_metrics |->
                    [avg_engagement_rate |-> round2(avg_engagement), total_videos |-> Len(videos)],
                recommendations |->
                    \* the rate interpolated into the text is left out
                    (IF low THEN <<Message("low_engagement", 0)>> ELSE <<>>)
                    \o few_videos(videos, low)
                    \o (IF hours # <<>>
                        THEN <<Message("best_hour", hours[MaxFirst(ratios, Len(hours))])>>
                        ELSE <<>>)
                    \o (IF \E i \in 1..Len(videos) : videos[i].hashtags > 0
                        THEN <<Message("hashtags_good", 0)>>
                        ELSE <<Message("hashtags_missing", 0)>>)]

\* the rows the first two places of a table are drawn from
LeadRows == {Row(v, l, 0, h, t) : v \in {0, 20, 25}, l \in 0..2, h \in {9, 21}, t \in {0, 1}}

\* the row that fills the rest of a table
FillRows == {Row(25, 1, 0, 9, 0), Row(20, 2, 30, 21, 0), Row(25, 0, 31, 9, 1), Row(25, 0, None, 21, 1)}

\* a table of n rows
Tables(n) ==
    IF n = 0 THEN {<<>>}
    ELSE IF n = 1 THEN {<<a>> : a \in LeadRows \cup FillRows}
    ELSE {[i \in 1..n |-> IF i = 1 THEN p[1] ELSE IF i = 2 THEN p[2] ELSE p[3]] :
            p \in LeadRows \X LeadRows \X FillRows}

InitRecommend ==
    /\ Boot
    /\ provider = [c \in Codes |-> NoField]
    /\ \E n \in 0..MaxRows : \E rows \in Tables(n) :
            args = [fn |-> "get_recommendations", rows |-> rows]
    /\ result = NoCall

\* GET /analytics/recommendations
get_recommendations ==
    /\ result = NoCall
    /\ result' = [fn |-> args.fn, value |-> recommendations(args.rows)]
    /\ UNCHANGED <<now, cache, issued, users, tokens, used_codes, hs, last, redeemed, served,
                   provider, args,
                   video_analytics, sync, memory_store, redis_store, calls>>

NextRecommend == get_recommendations

SpecRecommend == InitRecommend /\ [][NextRecommend]_vars

\* ------------------------------------------------------------ RateLimiter
RateKeys == 1..2

\* what is stored under a key that was never used
TimesOf(store, key) == IF key \in DOMAIN store THEN store[key] ELSE <<>>

\* (variant) a timestamp at the edge of the window is kept
live_times_edge(times, min_time) == SelectSeq(times, LAMBDA ts : ts >= min_time)

\* "[timestamp for timestamp in self.memory_store[key] if timestamp > min_time]"
live_times(times, min_time) == SelectSeq(times, LAMBDA ts : ts > min_time)

\* RateLimiter._check_memory_rate_limit: the verdict and the list left under
\* the key
check_memory_rate_limit(store, key, max_requests, window_seconds, current_time) ==
    LET kept == live_times(TimesOf(store, key), current_time - window_seconds)
        allowed == Len(kept) < max_requests
    IN [allowed |-> allowed,
        store |-> [k \in DOMAIN store \cup {key} |->
                      IF k # key THEN store[k]
                      ELSE IF allowed THEN Append(kept, current_time) ELSE kept]]

\* the sorted set under a Redis key: its members (the member str(time) has
\* the score time) and the time the key expires
NoZset == [members |-> {}, expiry |-> None]

ZsetOf(store, key, t) ==
    IF key \in DOMAIN store /\ store[key].expiry > t THEN store[key] ELSE NoZset

\* RateLimiter._check_redis_rate_limit without a Redis error: the pipeline
\* ZREMRANGEBYSCORE key 0 min_time, ZCARD, ZADD, EXPIRE, and the verdict
check_redis_rate_limit(store, key, max_requests, window_seconds, current_time) ==
    LET min_time == current_time - window_seconds
        kept == {m \in ZsetOf(store, key, current_time).members : ~(0 <= m /\ m <= min_time)}
        request_count == Cardinality(kept)
    IN [allowed |-> request_count < max_requests,
        store |-> [k \in DOMAIN store \cup {key} |->
                      IF k # key THEN store[k]
                      ELSE [members |-> kept \cup {current_time},
                            expiry |-> current_time + window_seconds + 1]]]

InitLimiter ==
    /\ Boot
    /\ provider = [c \in Codes |-> NoField]
    /\ \E m \in 0..MaxRequests, w \in 1..MaxWindow :
            args = [fn |-> "check_rate_limit", max_requests |-> m, window_seconds |-> w]
    /\ result = NoCall

\* time.time() moves on
Clock ==
    /\ now < MaxTime
    /\ now' = now + 1
    /\ UNCHANGED <<cache, issued, users, tokens, used_codes, hs, last, redeemed, served,
                   provider, args, result, video_analytics, sync, memory_store, redis_store, calls>>

\* one call of check_rate_limit(key, max_requests, window_seconds), made to
\* a limiter that uses memory and to a limiter that uses Redis
check_rate_limit(key) ==
    LET memory == check_memory_rate_limit(memory_store, key, args.max_requests,
                                          args.window_seconds, now)
        redis == check_redis_rate_limit(redis_store, key, args.max_requests,
                                        args.window_seconds, now)
    IN /\ Len(calls) < MaxCalls
       /\ memory_store' = memory.store
       /\ redis_store' = redis.store
       /\ calls' = Append(calls, [key |-> key, time |-> now,
                                  memory |-> memory.allowed, redis |-> redis.allowed])
       /\ UNCHANGED <<now, cache, issued, users, tokens, used_codes, hs, last, redeemed, served,
                      provider, args, result, video_analytics, sync>>

NextLimiter ==
    \/ Clock
    \/ \E key \in RateKeys : check_rate_limit(key)

SpecLimiter == InitLimiter /\ [][NextLimiter]_vars

\* ------------------------------------------- /tiktok/videos and /tiktok/sync
\* a video of the provider's /video/list/ answer
ApiVideo(id, views, description) ==
    [id |-> id, video_description |-> description, view_count |-> views,
     like_count |-> views, comment_count |-> 0, share_count |-> 0]

\* VideoAnalytics(user_id=..., video_id=video["id"], ...)
NewVideoRow(user_id, video) ==
    [user_id |-> user_id, video_id |-> video.id, video_description |-> video.video_description,
     view_count |-> video.view_count, like_count |-> video.like_count,
     comment_count |-> video.comment_count, share_count |-> video.share_count]

\* "existing.view_count = video.get("view_count", 0)" and the three lines
\* after it
UpdatedVideoRow(existing, video) ==
    [existing EXCEPT !.view_count = video.view_count, !.like_count = video.like_count,
                     !.comment_count = video.comment_count, !.share_count = video.share_count]

\* select(VideoAnalytics).filter(user_id == ..., video_id == ...): the rows
\* of the database; autoflush is off, so the objects added in this session
\* are not among them
MatchingVideos(tbl, user_id, video_id) ==
    {i \in 1..Len(tbl) : tbl[i].user_id = user_id /\ tbl[i].video_id = video_id}

\* the Session: rows the session's view of the rows of the database (with
\* the changes made to them), added the objects of db.add, failed whether
\* scalar_one_or_none raised
Session(rows, added, failed) == [rows |-> rows, added |-> added, failed |-> failed]

\* the body of "for video in videos:" for one video: the select sees the
\* rows of the table, never the objects added and not yet flushed
SaveVideo(session, user_id, video) ==
    LET existing == scalar_one_or_none(MatchingVideos(session.rows, user_id, video.id))
    IN IF session.failed THEN session
       ELSE IF existing = None THEN Session(session.rows, session.added, TRUE)
       ELSE IF existing = 0
            THEN Session(session.rows, Append(session.added, NewVideoRow(user_id, video)), FALSE)
       ELSE Session([session.rows EXCEPT ![existing] = UpdatedVideoRow(@, video)],
                    session.added, FALSE)

\* "for video in videos:" over the videos of one page, the first video
\* first (the singleton sets bind the session and the videos left to their
\* values before the next round)
RECURSIVE SaveVideos(_, _, _)
SaveVideos(session, user_id, videos) ==
    IF videos = <<>> THEN session
    ELSE CHOOSE saved \in {SaveVideos(next, user_id, rest) :
                              next \in {SaveVideo(session, user_id, Head(videos))},
                              rest \in {Tail(videos)}} : TRUE

\* db.commit(): the changed rows are updated and the added objects inserted
CommitVideos(session) == session.rows \o session.added

\* a page of the provider: tiktok_service.get_user_videos(access_token, cursor)
Page(videos, has_more, cursor) == [videos |-> videos, has_more |-> has_more, cursor |-> cursor]

\* "if cursor: body["cursor"] = cursor": without a cursor the provider
\* answers with its first page
get_user_videos_page(pages, cursor) == IF cursor = None THEN pages[1] ELSE pages[cursor]

\* the lists of videos a page can hold
PageVideos ==
    {<<>>,
     <<ApiVideo(1, 5, 1)>>,
     <<ApiVideo(1, 7, 2), ApiVideo(2, 5, 1)>>,
     <<ApiVideo(2, 5, 1), ApiVideo(2, 7, 2)>>,
     [i \in 1..PAGE_SIZE |-> ApiVideo(i, 1, 1)]}

\* the answers of the provider: the page for each cursor
Feeds ==
    UNION {[1..n -> {Page(v, h, c) : v \in PageVideos, h \in BOOLEAN, c \in {None} \cup 1..n}]
            : n \in 1..MaxPages}

InitSync ==
    /\ now = 0
    /\ cache = [k \in {} |-> 0]
    /\ issued = [s \in States |-> None]
    /\ tokens = <<VaultRow(1, 1, READ_KEY, 0), VaultRow(2, 2, WRITE_KEY, 0)>>
    /\ users = [u \in Users |-> [tiktok_open_id |-> IF u <= 2 THEN u ELSE None]]
    /\ used_codes = {1, 2}
    /\ hs = EmptyBag
    /\ last = NoResponse
    /\ redeemed = {}
    /\ served = 0
    /\ provider = [c \in Codes |-> NoField]
    /\ args \in {[fn |-> "get_user_videos", pages |-> f] : f \in Feeds}
    /\ result = NoCall
    /\ video_analytics = <<>>
    /\ sync = NoSync
    /\ memory_store = NoTimes
    /\ redis_store = NoTimes
    /\ calls = <<>>

\* how a request for videos ends
VideosOutcome(fn, user, status, videos_synced) ==
    [fn |-> fn, user |-> user, status |-> status, videos_synced |-> videos_synced]

\* GET /tiktok/videos?cursor=...
get_user_videos(u, cursor) ==
    LET access_token == get_tiktok_token(tokens, u, now)
        video_data == get_user_videos_page(args.pages, cursor)
        session == SaveVideos(Session(video_analytics, <<>>, FALSE), u, video_data.videos)
    IN /\ sync = NoSync
       /\ served < MaxSyncs
       /\ served' = served + 1
       /\ IF access_token.status # HTTP_200_OK THEN
                /\ result' = VideosOutcome("get_user_videos", u, access_token.status, 0)
                /\ video_analytics' = video_analytics
          ELSE IF session.failed THEN
                /\ result' = VideosOutcome("get_user_videos", u, HTTP_500_INTERNAL_SERVER_ERROR, 0)
                /\ video_analytics' = video_analytics
          ELSE
                /\ result' = VideosOutcome("get_user_videos", u, HTTP_200_OK,
                                           Len(video_data.videos))
                /\ video_analytics' = CommitVideos(session)
       /\ UNCHANGED <<now, cache, issued, users, tokens, used_codes, hs, last, redeemed,
                      provider, args, sync, memory_store, redis_store, calls>>

\* POST /tiktok/sync up to its loop (the profile fields it copies into the
\* user row are not part of the state)
SyncStart(u) ==
    LET access_token == get_tiktok_token(tokens, u, now)
    IN /\ sync = NoSync
       /\ served < MaxSyncs
       /\ served' = served + 1
       /\ IF access_token.status # HTTP_200_OK THEN
                /\ result' = VideosOutcome("sync_tiktok_data", u, access_token.status, 0)
                /\ sync' = sync
          ELSE
                /\ result' = NoCall
                /\ sync' = [pc |-> "fetch", user |-> u, video_count |-> 0, cursor |-> None,
                            session |-> Session(video_analytics, <<>>, FALSE)]
       /\ UNCHANGED <<now, cache, issued, users, tokens, used_codes, hs, last, redeemed,
                      provider, args, video_analytics, memory_store, redis_store, calls>>

\* one turn of "while True:" in sync_tiktok_data
SyncPage ==
    /\ sync # NoSync /\ sync.pc = "fetch"
    /\ LET video_data == get_user_videos_page(args.pages, sync.cursor)
           session == SaveVideos(sync.session, sync.user, video_data.videos)
           video_count == sync.video_count + Len(video_data.videos)
       IN IF session.failed THEN
                \* except Exception: await db.rollback()
                /\ result' = VideosOutcome("sync_tiktok_data", sync.user,
                                           HTTP_500_INTERNAL_SERVER_ERROR, 0)
                /\ sync' = NoSync
          ELSE IF ~video_data.has_more THEN
                /\ result' = result
                /\ sync' = [sync EXCEPT !.pc = "commit", !.session = session,
                                        !.video_count = video_count]
          ELSE IF video_count >= SYNC_MAX_VIDEOS THEN
                /\ result' = result
                /\ sync' = [sync EXCEPT !.pc = "commit", !.session = session,
                                        !.video_count = video_count,
                                        !.cursor = video_data.cursor]
          ELSE
                /\ result' = result
                /\ sync' = [sync EXCEPT !.session = session, !.video_count = video_count,
                                        !.cursor = video_data.cursor]
    /\ UNCHANGED <<now, cache, issued, users, tokens, used_codes, hs, last, redeemed, served,
                   provider, args, video_analytics, memory_store, redis_store, calls>>

\* "await db.commit()" and the answer of sync_tiktok_data
SyncCommit ==
    /\ sync # NoSync /\ sync.pc = "commit"
    /\ video_analytics' = CommitVideos(sync.session)
    /\ result' = VideosOutcome("sync_tiktok_data", sync.user, HTTP_200_OK, sync.video_count)
    /\ sync' = NoSync
    /\ UNCHANGED <<now, cache, issued, users, tokens, used_codes, hs, last, redeemed, served,
                   provider, args, memory_store, redis_store, calls>>

NextSync ==
    \/ \E u \in Users, cursor \in {None} \cup 1..MaxPages :
            cursor \in {None} \cup DOMAIN args.pages /\ get_user_videos(u, cursor)
    \/ \E u \in Users : SyncStart(u)
    \/ SyncPage
    \/ SyncCommit

SpecSync == InitSync /\ [][NextSync]_vars

\* syncs alone, against a provider each of whose pages names another page
\* as the next one; a request that has started keeps running
InitPaging ==
    /\ InitSync
    /\ Len(args.pages) = MaxPages
    /\ \A i \in DOMAIN args.pages : args.pages[i].cursor \notin {None, i}

NextPaging ==
    \/ \E u \in Users : SyncStart(u)
    \/ SyncPage
    \/ SyncCommit

SpecPaging == InitPaging /\ [][NextPaging]_vars /\ WF_vars(SyncPage) /\ WF_vars(SyncCommit)

\* ------------------------------------------------------------- properties
\* in this step a request is answered without suspending
Answered == last = NoResponse /\ last' # NoResponse /\ hs' = hs

\* in this step a callback gets past the state lookup and suspends with frame f
Admitted(f) == f.pc = "get_user" /\ CopiesIn(f, hs') > CopiesIn(f, hs)

\* in this step the suspended callback with frame f runs
Moved(f) == CopiesIn(f, hs') < CopiesIn(f, hs)

\* in this step the suspended callback with frame f raises and its request ends
Raised(f) ==
    /\ Moved(f)
    /\ BagCardinality(hs') < BagCardinality(hs)
    /\ last'.status # HTTP_200_OK

\* the database and the provider are as before the step
NoWrite == tokens' = tokens /\ users' = users
NoExchange == used_codes' = used_codes

\* C1: once a callback has completed successfully for a state S, a callback
\* that arrives later with the same S (any code) does not get past the state
\* lookup: it ends with the invalid-state error, no token exchange is made for
\* it and no Credential row or user row changes.
C1_StateSingleUse ==
    [][\A s \in redeemed :
          /\ \A f \in BagToSet(hs') : ~(Admitted(f) /\ f.state = s)
          /\ (Answered /\ last'.state = s /\ last'.method = "GET" /\ last'.code # None
                /\ last'.error = None /\ last'.challenge = None)
              => /\ last'.message = "INVALID_OR_EXPIRED_STATE"
                 /\ NoWrite /\ NoExchange]_vars

\* C1 witness: a replay of a redeemed state has been refused
C1_Witness ==
    /\ last.message = "INVALID_OR_EXPIRED_STATE"
    /\ last.state \in redeemed

\* C2 (as claimed): a callback with a code and a state that is not in the
\* store ends with InvalidOrExpiredState as a 400 client error, and no
\* Credential row is created or modified.
C2_InvalidState400 ==
    [][(/\ Answered /\ last'.method = "GET" /\ last'.code # None /\ last'.state # None
        /\ last'.error = None /\ last'.challenge = None
        /\ cache_get(cache, cache_key(last'.state), now) = NoSession)
       => /\ last'.message = "INVALID_OR_EXPIRED_STATE"
          /\ last'.status = HTTP_400_BAD_REQUEST
          /\ NoWrite]_vars

\* C3: a callback writes nothing up to and including its token exchange, and
\* the exchange of an authorization code that was used before always fails:
\* the callback ends there with an error, and every Credential row and every
\* user's tiktok_open_id are as they were.
C3_ExchangeFailureWritesNothing ==
    [][/\ \A f \in BagToSet(hs') : Admitted(f) => NoWrite
       /\ \A f \in BagToSet(hs) :
          /\ (f.pc \in {"get_user", "exchange"} /\ Moved(f)) => NoWrite
          /\ (f.pc = "exchange" /\ Moved(f) /\ (f.code \in used_codes \/ Raised(f)))
              => /\ Raised(f)
                 /\ last'.message = "Token error"
                 /\ NoWrite]_vars

\* C3 witness: the second exchange of a used code has failed while the
\* Credential of the earlier success is in the table
C3_Witness ==
    /\ last.message = "Token error"
    /\ last.code \in used_codes
    /\ \E i \in 1..Len(tokens) : tokens[i].access_token = encrypt(WRITE_KEY, Str(10 + last.code))

\* C4 (as claimed): in every reachable state a user has at most one
\* Credential row for TikTok, also after two of the user's callbacks raced.
C4_OneCredentialPerUser ==
    \A u \in Users : Cardinality(MatchingTokens(tokens, u)) <= 1

\* C5: when a callback that found a Credential row of its user commits, no
\* row is added, the user still has that one row, and the row holds the
\* encrypted tokens, the expiry, the open_id and the scope of this exchange
\* and is active.
C5_ReconnectUpdatesInPlace ==
    [][\A f \in BagToSet(hs) :
          (f.pc = "commit" /\ Moved(f) /\ ~Raised(f) /\ f.existing # 0)
          => /\ Len(tokens') = Len(tokens)
             /\ MatchingTokens(tokens', f.user_id) = {f.existing}
             /\ tokens'[f.existing].access_token = encrypt(WRITE_KEY, Str(10 + f.code))
             /\ tokens'[f.existing].refresh_token = encrypt(WRITE_KEY, Str(20 + f.code))
             /\ tokens'[f.existing].open_id = f.token_open_id
             /\ tokens'[f.existing].scopes = 1
             /\ \E k \in 0..MaxTicks :
                    /\ k * STATE_TTL <= now
                    /\ tokens'[f.existing].expires_at = k * STATE_TTL + EXPIRES_IN
             /\ tokens'[f.existing].is_active]_vars

\* C5 witness: a second callback of a user has committed over the row of
\* the first one
C5_Witness ==
    \E f \in InFlight :
        /\ f.pc = "finish" /\ f.existing # 0
        /\ tokens[f.existing].access_token = encrypt(WRITE_KEY, Str(10 + f.code))
        /\ Cardinality(used_codes) >= 2

\* C6: a callback that got past the lookup of state S works for the user who
\* was handed S and with the verifier stored with S; its commit adds or
\* changes Credential rows of that user only and the tiktok_open_id of that
\* user only.
C6_NoCrossTalk ==
    [][/\ \A f \in BagToSet(hs') :
            /\ f.user_id = issued[f.state]
            /\ f.code_verifier = code_verifier_for(f.state)
       /\ \A f \in BagToSet(hs) :
            (f.pc = "commit" /\ Moved(f))
            => /\ Len(tokens') >= Len(tokens)
               /\ \A i \in 1..Len(tokens') :
                    (i > Len(tokens) \/ tokens'[i] # tokens[i])
                    => tokens'[i].user_id = issued[f.state]
               /\ \A u \in Users : users'[u] # users[u] => u = issued[f.state]]_vars

\* C6 witness: a callback of one user is past its commit while another
\* user's Credential is in the table
C6_Witness ==
    \E f \in InFlight :
        /\ f.pc = "finish"
        /\ \E i \in 1..Len(tokens) : tokens[i].user_id # f.user_id
        /\ \E i \in 1..Len(tokens) : tokens[i].user_id = f.user_id

\* the answer to a redirect whose state is not in the store
Refused ==
    /\ last'.message = "INVALID_OR_EXPIRED_STATE"
    /\ last'.status = ExceptStatus(HTTP_400_BAD_REQUEST)
    /\ hs' = hs
    /\ NoWrite /\ NoExchange

\* C7: a callback is let past the lookup only less than 600 seconds after
\* tiktok_authorize stored the state; 600 seconds or more after it, the
\* callback is answered exactly as one with a state that was never stored,
\* with no exchange and no write, even while the entry is still in the map.
C7_StateExpires ==
    [][/\ \A f \in BagToSet(hs') :
            Admitted(f) => /\ cache_key(f.state) \in DOMAIN cache
                           /\ now - cache[cache_key(f.state)].value.created_at < STATE_TTL
       /\ (Answered /\ last'.method = "GET" /\ last'.code # None /\ last'.state # None)
          => /\ (issued[last'.state] = None => Refused)
             /\ (/\ cache_key(last'.state) \in DOMAIN cache
                 /\ now - cache[cache_key(last'.state)].value.created_at >= STATE_TTL)
                => Refused]_vars

\* C7 witness: a state that was handed out and never redeemed has been
\* refused
C7_Witness ==
    /\ last.message = "INVALID_OR_EXPIRED_STATE"
    /\ issued[last.state] # None
    /\ last.state \notin redeemed

\* the store, the database and the provider are as before the step
NoEffect == cache' = cache /\ NoWrite /\ NoExchange /\ hs' = hs

\* C8 (as claimed): a callback with a challenge and no code is answered with
\* the challenge and touches neither the store nor the database.
C8_ChallengeAnyMethod ==
    [][(Answered /\ last'.challenge # None /\ last'.code = None)
       => /\ last'.message = "challenge" /\ last'.echo = last'.challenge
          /\ NoEffect]_vars

\* C8 (amended): a GET callback with a challenge (with or without other
\* parameters) is answered 200 with exactly that challenge and touches
\* neither the store nor the database; a POST is not.
C8_ChallengeEcho ==
    [][(Answered /\ last'.challenge # None)
       => /\ NoEffect
          /\ last'.method = "GET"
             => /\ last'.message = "challenge" /\ last'.echo = last'.challenge
                /\ last'.status = HTTP_200_OK
          /\ last'.method = "POST" => last'.message = "active"]_vars

\* C8 witness: the challenge 12345 has been echoed while a state is pending
C8_Witness ==
    /\ last.message = "challenge" /\ last.echo = 12345 /\ last.code = None
    /\ DOMAIN cache # {}

\* C9 (as claimed): a callback with an error parameter and no challenge ends
\* with the provider-authorization error and does not look up the store.
C9_ErrorAlwaysReported ==
    [][(Answered /\ last'.error # None /\ last'.challenge = None)
       => /\ last'.message = "TIKTOK_OAUTH_ERROR"
          /\ cache' = cache]_vars

\* C10 (as claimed): a POST is answered as the GET with the same parameters.
C10_MethodsAlike ==
    [][(Answered /\ last'.method = "POST")
       => (last'.message = "active"
            <=> Branch("GET", last'.code, last'.state, last'.error, last'.challenge) = "active")]_vars

\* C10 (amended): a POST, whatever its parameters, gets the neutral answer
\* and has no effect; the challenge, error and exchange paths are taken by
\* GET requests only.
C10_PostIsNeutral ==
    [][/\ (last = NoResponse /\ last' # NoResponse /\ last'.method = "POST")
          => /\ last'.message = "active" /\ last'.status = HTTP_200_OK
             /\ NoEffect
       /\ (last' # last /\ last'.message \in {"challenge", "TIKTOK_OAUTH_ERROR", "connected"})
          => last'.method = "GET"]_vars

\* C10 witness: a POST with a code and a pending state got the neutral answer
C10_Witness ==
    /\ last.method = "POST" /\ last.message = "active"
    /\ last.code # None /\ last.state # None
    /\ cache_key(last.state) \in DOMAIN cache

\* C11: a callback without challenge, without error and without the pair of
\* code and state gets the neutral 200 answer, and the store, the Credential
\* table and the User table are unchanged.
C11_IdlePath ==
    [][(/\ last = NoResponse /\ last' # NoResponse
        /\ last'.challenge = None /\ last'.error = None
        /\ (last'.code = None \/ last'.state = None))
       => /\ last'.message = "active" /\ last'.status = HTTP_200_OK
          /\ NoEffect]_vars

\* C11 witness: a GET with a code and no state got the neutral answer while
\* a state was pending
C11_Witness ==
    /\ last.method = "GET" /\ last.message = "active"
    /\ last.code # None /\ last.state = None /\ last.error = None /\ last.challenge = None
    /\ DOMAIN cache # {}

C13_UnreadableIsStructured ==
    (/\ result.fn = "get_tiktok_token"
     /\ \E i \in ActiveTokens(tokens, args.user) : tokens[i].access_token.key # READ_KEY)
    => /\ result.token = NoToken
       /\ result.status \in {HTTP_400_BAD_REQUEST, HTTP_401_UNAUTHORIZED}

C15_EncryptedAtRest ==
    \A i \in 1..Len(tokens) :
        \E c \in used_codes :
            /\ tokens[i].access_token = [kind |-> "fernet", key |-> WRITE_KEY, data |-> 10 + c]
            /\ tokens[i].refresh_token = [kind |-> "fernet", key |-> WRITE_KEY, data |-> 20 + c]
            /\ tokens[i].access_token # TokenData(c, 0).access_token
            /\ tokens[i].refresh_token # TokenData(c, 0).refresh_token

\* C15 witness: a Credential has been written and overwritten by a second
\* exchange
C15_Witness ==
    /\ Len(tokens) = 1
    /\ Cardinality(used_codes) = 2
    /\ \E f \in InFlight : f.pc = "finish" /\ f.existing = 1

\* the exchange of the callback with frame f got a 200 body without "field"
LackingAt(f, field) ==
    /\ f.pc = "exchange" /\ Moved(f)
    /\ used_codes' # used_codes
    /\ provider[f.code] = field

\* C16 (as claimed): a 200 body that lacks any one of the seven fields makes
\* the callback fail, and no Credential row is created or modified.
C16_AnyMissingFieldFails ==
    [][\A f \in BagToSet(hs) : \A field \in TokenFields :
          LackingAt(f, field) => (Raised(f) /\ NoWrite)]_vars

\* C16 (amended): a 200 body that lacks access_token, refresh_token, open_id,
\* scope, expires_in or refresh_expires_in makes the callback fail with the
\* validation error, with no write; a body that lacks only token_type is
\* accepted and the callback goes on.
C16_RequiredFieldsOnly ==
    [][\A f \in BagToSet(hs) :
          /\ \A field \in TokenFields \ {"token_type"} :
                LackingAt(f, field)
                => /\ Raised(f) /\ NoWrite
                   /\ last'.message = "ValidationError"
                   /\ last'.status = HTTP_500_INTERNAL_SERVER_ERROR
          /\ LackingAt(f, "token_type")
             => /\ ~Raised(f) /\ NoWrite
                /\ \E g \in BagToSet(hs') : g.pc = "select" /\ g.code = f.code]_vars

\* C16 witness: a callback has failed on a body without refresh_expires_in
C16_Witness ==
    /\ last.message = "ValidationError"
    /\ provider[last.code] = "refresh_expires_in"
    /\ tokens = <<>>
\* ------------------------------------------------- analytics: properties
\* calculate_engagement_metrics has answered a non-empty list
Measured ==
    /\ result # NoCall
    /\ result.fn = "calculate_engagement_metrics"
    /\ args.videos # <<>>

\* the sum of a counter over the videos, taken from the last video backwards
RECURSIVE Total(_, _, _)
Total(videos, field, n) ==
    IF n = 0 THEN 0 ELSE videos[n][field] + Total(videos, field, n - 1)

Reversed(videos) == [i \in 1..Len(videos) |-> videos[Len(videos) + 1 - i]]

\* the fraction x is the quotient a / b
IsQuotient(x, a, b) == x.n * b = a * x.d

Interactions(video) == video.like_count + video.comment_count + video.share_count

\* C17: for a non-empty list calculate_engagement_metrics returns the number
\* of videos and the sums of the four counters, the same for the list in
\* reverse order, and gives every video the rate (likes + comments + shares)
\* / views * 100, or 0 when it has no views; the three videos of the test
\* give 6000 views, 600 likes, every rate 11.5, average rate 11.5, 2000
\* views per video and the 3000-view video as most viewed.
C17_TotalsAndRates ==
    Measured =>
        LET vs == args.videos
            r == result.value
            back == calculate_engagement_metrics(Reversed(vs))
        IN /\ r.total_videos = Len(vs)
           /\ r.total_views = Total(vs, "view_count", Len(vs))
           /\ r.total_likes = Total(vs, "like_count", Len(vs))
           /\ r.total_comments = Total(vs, "comment_count", Len(vs))
           /\ r.total_shares = Total(vs, "share_count", Len(vs))
           /\ back.total_views = r.total_views
           /\ back.total_likes = r.total_likes
           /\ back.total_comments = r.total_comments
           /\ back.total_shares = r.total_shares
           /\ Len(r.engagement_rate) = Len(vs)
           /\ \A i \in 1..Len(vs) :
                IF vs[i].view_count > 0
                THEN IsQuotient(r.engagement_rate[i], 100 * Interactions(vs[i]), vs[i].view_count)
                ELSE r.engagement_rate[i].n = 0
           /\ vs = TestVideos =>
                /\ r.total_views = 6000
                /\ r.total_likes = 600
                /\ \A i \in 1..3 : IsQuotient(r.engagement_rate[i], 23, 2)
                /\ r.avg_engagement_rate = 1150
                /\ r.avg_views_per_video = 2000
                /\ r.most_viewed_video.id = 3
                /\ r.most_viewed_video.view_count = 3000

\* the three videos of the test have been measured
C17_Witness ==
    /\ Measured
    /\ args.videos = TestVideos
    /\ result.value.total_views = 6000
    /\ result.value.avg_engagement_rate = 1150

\* the videos with views
Viewed(videos) == {i \in 1..Len(videos) : videos[i].view_count > 0}

\* the sum of the rates of the videos in the set S, as a fraction
RECURSIVE RateSum(_, _)
RateSum(videos, S) ==
    IF S = {} THEN Zero
    ELSE LET i == CHOOSE x \in S : TRUE
         IN Add(Frac(100 * Interactions(videos[i]), videos[i].view_count),
                RateSum(videos, S \ {i}))

\* C18: avg_engagement_rate is the mean of the rates of the videos with
\* view_count > 0 alone (rounded to two places), 0 when no video has views;
\* avg_views_per_video is the total views over the number of all videos
\* (rounded to a whole number).
C18_MeanOverViewed ==
    Measured =>
        LET vs == args.videos
            r == result.value
            S == Viewed(vs)
            sum == RateSum(vs, S)
        IN /\ S = {} => r.avg_engagement_rate = 0
           /\ S # {} =>
                r.avg_engagement_rate = RoundHalfEven(100 * sum.n, sum.d * Cardinality(S))
           /\ r.avg_views_per_video = RoundHalfEven(Total(vs, "view_count", Len(vs)), Len(vs))

\* a list with a zero-view video and a video whose rate is not 0 has been
\* measured
C18_Witness ==
    /\ Measured
    /\ \E i \in 1..Len(args.videos) : args.videos[i].view_count = 0
    /\ Viewed(args.videos) # {}
    /\ result.value.avg_engagement_rate > 0
    /\ result.value.avg_views_per_video < result.value.total_views

\* C19: most_viewed_video is the first video of the input whose view_count is
\* the largest, and best_engagement_video is the first video of the input
\* whose rate is the largest.
C19_FirstOfTheBest ==
    Measured =>
        LET vs == args.videos
            r == result.value
            rate(i) == r.engagement_rate[i]
        IN /\ \E i \in 1..Len(vs) :
                /\ r.most_viewed_video.id = vs[i].id
                /\ r.most_viewed_video.view_count = vs[i].view_count
                /\ \A j \in 1..Len(vs) : vs[j].view_count <= vs[i].view_count
                /\ \A j \in 1..(i - 1) : vs[j].view_count < vs[i].view_count
           /\ \E i \in 1..Len(vs) :
                /\ r.best_engagement_video.id = vs[i].id
                /\ \A j \in 1..Len(vs) : ~Less(rate(i), rate(j))
                /\ \A j \in 1..(i - 1) : Less(rate(j), rate(i))

\* two videos share the largest view count and two share the largest rate,
\* and the video picked is not the last of the list
C19_Witness ==
    /\ Measured
    /\ \E i, j \in 1..Len(args.videos) :
        /\ i < j
        /\ args.videos[i].view_count = args.videos[j].view_count
        /\ result.value.most_viewed_video.id = args.videos[i].id
    /\ \E i, j \in 1..Len(args.videos) :
        /\ i < j
        /\ result.value.engagement_rate[i] = result.value.engagement_rate[j]
        /\ result.value.engagement_rate[i].n > 0
        /\ result.value.best_engagement_video.id = args.videos[i].id

\* calculate_growth_trends has answered two videos of different weeks
TwoWeeks ==
    /\ result # NoCall
    /\ result.fn = "calculate_growth_trends"
    /\ Len(args.videos) = 2
    /\ args.videos[1].create_time # 0
    /\ args.videos[2].create_time # 0
    /\ week_key(args.videos[1].create_time) # week_key(args.videos[2].create_time)

\* the trend the rule gives from an earlier and a later value, in hundredths
RuleTrend(earlier, later) ==
    IF earlier.n = 0 THEN (IF later.n > 0 THEN 10000 ELSE 0)
    ELSE RoundHalfEven(10000 * (later.n * earlier.d - earlier.n * later.d), later.d * earlier.n)

\* C20: for two videos of different weeks weekly_view_trend is (later views
\* - earlier views) / earlier views * 100, and 100 or 0 when the earlier
\* week has no views and the later one has some or none; the engagement
\* trend follows the same rule over the rates of the two weeks.
C20_TrendOfTwoWeeks ==
    TwoWeeks =>
        LET vs == args.videos
            e == IF vs[1].create_time < vs[2].create_time THEN 1 ELSE 2
            l == 3 - e
        IN /\ result.value.weekly_view_trend
                = RuleTrend(Frac(vs[e].view_count, 1), Frac(vs[l].view_count, 1))
           /\ result.value.weekly_engagement_trend
                = RuleTrend(engagement_rate(vs[e]), engagement_rate(vs[l]))

\* C21 (as claimed): when a callback that passed the state lookup ends with
\* an error (user not found, failed exchange, malformed token response,
\* database failure), the entry of its state is no longer in the store.
C21_StateDeletedOnError ==
    [][\A f \in BagToSet(hs) :
          Raised(f) => cache_get(cache', cache_key(f.state), now') = NoSession]_vars

\* the weeks that hold a video of the list
WeeksOf(videos) == {week_key(videos[i].create_time) : i \in Bucketed(videos)}

\* C22 (as claimed): for two or more videos posting_frequency is the number
\* of input videos over the number of distinct weeks that hold a video of the
\* whole input, and every video counted is in one of those weeks.
C22_PostingFrequency ==
    (/\ result # NoCall
     /\ result.fn = "calculate_growth_trends"
     /\ Len(args.videos) >= 2)
    => /\ WeeksOf(args.videos) # {}
       /\ result.value.posting_frequency
            = RoundHalfEven(100 * Len(args.videos), Cardinality(WeeksOf(args.videos)))
       /\ \A i \in 1..Len(args.videos) : i \in Bucketed(args.videos)

\* get_recommendations has answered
Recommended == result # NoCall /\ result.fn = "get_recommendations"

\* the rows of the last 30 days
Last30(rows) ==
    {i \in 1..Len(rows) : rows[i].video_created_at # None
                          /\ rows[i].video_created_at <= RECOMMENDATION_DAYS}

\* the sum of a counter over the rows in the set S
RECURSIVE SumOver(_, _, _)
SumOver(rows, field, S) ==
    IF S = {} THEN 0
    ELSE LET i == CHOOSE x \in S : TRUE
         IN rows[i][field] + SumOver(rows, field, S \ {i})

\* the place of a message in the fixed order
Rank(kind) ==
    CASE kind = "low_engagement" -> 1
      [] kind = "few_videos" -> 2
      [] kind = "best_hour" -> 3
      [] kind \in {"hashtags_good", "hashtags_missing"} -> 4
      [] OTHER -> 0

Has(ms, kind) == \E k \in 1..Len(ms) : ms[k].kind = kind

\* C23: with a video in the last 30 days the messages come in the order
\* low-engagement, posting-frequency, best-hour, hashtag; low-engagement is
\* given iff the mean of the rates of the 30-day videos (0 for a video
\* without views) is below 5, posting-frequency iff they are fewer than 10,
\* best-hour names an hour whose views per video no other hour exceeds,
\* exactly one hashtag message is given, and no message depends on another;
\* without such a video the only message is 'sync your account'.
C23_MessagesInOrder ==
    Recommended =>
        LET rows == args.rows
            S == Last30(rows)
            ms == result.value.recommendations
            sum == RateSum(rows, S \cap Viewed(rows))
            AtHour(h) == {i \in S : rows[i].hour = h}
        IN /\ S = {} => ms = <<Message("sync_account", 0)>>
           /\ S # {} =>
                /\ \A k \in 1..Len(ms) : Rank(ms[k].kind) > 0
                /\ \A j, k \in 1..Len(ms) : j < k => Rank(ms[j].kind) < Rank(ms[k].kind)
                /\ Has(ms, "low_engagement") <=> sum.n < LOW_ENGAGEMENT * Cardinality(S) * sum.d
                /\ Has(ms, "few_videos") <=> Cardinality(S) < FEW_VIDEOS
                /\ \A k \in 1..Len(ms) :
                        ms[k].kind = "few_videos" => ms[k].value = Cardinality(S)
                /\ \E k \in 1..Len(ms) :
                        /\ ms[k].kind = "best_hour"
                        /\ AtHour(ms[k].value) # {}
                        /\ \A i \in S :
                            SumOver(rows, "view_count", AtHour(rows[i].hour))
                                    * Cardinality(AtHour(ms[k].value))
                                <= SumOver(rows, "view_count", AtHour(ms[k].value))
                                    * Cardinality(AtHour(rows[i].hour))
                /\ Has(ms, "hashtags_good") <=> \E i \in S : rows[i].hashtags > 0
                /\ Has(ms, "hashtags_missing") <=> \A i \in S : rows[i].hashtags = 0

\* all four messages have been given for a table that also holds an older row
C23_Witness ==
    /\ Recommended
    /\ Len(result.value.recommendations) = 4
    /\ result.value.recommendations[2] = Message("few_videos", 2)
    /\ Len(args.rows) > 2
    /\ result.value.recommendations[3] = Message("best_hour", 21)

\* C26 (as claimed): while the Credential a callback stored for a user is
\* active and not expired, get_tiktok_token returns for that user the
\* access_token the provider issued in that exchange.
C26_TokenRoundTrip ==
    (/\ result # NoCall
     /\ result.fn = "get_tiktok_token"
     /\ Cardinality(ActiveTokens(tokens, args.user)) = 1)
    => \A i \in ActiveTokens(tokens, args.user) :
            ~Expired(tokens[i], now)
            => /\ result.status = HTTP_200_OK
               /\ result.token = TokenData(i, args.user).access_token

\* every Credential of a user names the TikTok account the user row names
OpenIdsAgree(u_tbl, t_tbl) ==
    \A i \in 1..Len(t_tbl) :
        t_tbl[i].token_type = "tiktok" => u_tbl[t_tbl[i].user_id].tiktok_open_id = t_tbl[i].open_id

\* C28: in every committed state a user's tiktok_open_id is the open_id of
\* the user's Credential; a callback that fails changes neither.
C28_OpenIdAgrees ==
    [][/\ OpenIdsAgree(users', tokens')
       /\ \A f \in BagToSet(hs) : Raised(f) => NoWrite]_vars

\* C27 (as claimed): when tiktok_authorize or login_tiktok returns a URL
\* with a state, the store holds an entry for that state with the id of the
\* user who started and a code_verifier.
C27_HandedStateIsStored ==
    [][\A s \in States :
          (issued[s] = None /\ issued'[s] # None)
          => LET session_data == cache_get(cache', cache_key(s), now')
             IN /\ session_data # NoSession
                /\ session_data.user_id = issued'[s]
                /\ session_data.code_verifier # None]_vars

\* the calls for a key the in-memory limiter admitted
Admits(key) == {i \in 1..Len(calls) : calls[i].key = key /\ calls[i].memory}

\* the admitted calls for a key that lie in the window that ends at time t
InWindow(key, t) ==
    {i \in Admits(key) : t - args.window_seconds < calls[i].time /\ calls[i].time <= t}

\* C29: for every key the in-memory limiter admits at most max_requests
\* calls in any window of window_seconds (a window holds the times t with
\* end - window_seconds < t <= end), a rejected call is not recorded under
\* the key, and a call is admitted whenever fewer than max_requests admitted
\* calls lie in the window that precedes it.
C29_MemoryWindow ==
    args.fn = "check_rate_limit" =>
        \A key \in RateKeys :
            /\ \A t \in 0..(MaxTime + MaxWindow) :
                    Cardinality(InWindow(key, t)) <= args.max_requests
            /\ \A i \in 1..Len(calls) :
                    calls[i].key = key =>
                        (calls[i].memory <=>
                            Cardinality({j \in InWindow(key, calls[i].time) : j < i})
                                < args.max_requests)
            /\ \A i \in 1..Len(calls) :
                    (calls[i].key = key /\ \A j \in (i + 1)..Len(calls) : calls[j].key # key)
                    => Len(TimesOf(memory_store, key)) = Cardinality(InWindow(key, calls[i].time))

\* a key was refused and admitted again once the window had moved on
C29_Witness ==
    /\ args.fn = "check_rate_limit"
    /\ \E i, j, k \in 1..Len(calls) :
        /\ i < j /\ j < k
        /\ calls[i].key = calls[j].key /\ calls[j].key = calls[k].key
        /\ calls[i].memory /\ ~calls[j].memory /\ calls[k].memory
        /\ calls[k].time = calls[i].time + args.window_seconds

\* C30 (as claimed): the limiter on Redis and the limiter in memory give the
\* same verdict on every call of a sequence, also after a rejected call.
C30_SameVerdicts ==
    args.fn = "check_rate_limit" =>
        \A i \in 1..Len(calls) : calls[i].redis = calls[i].memory

\* C24 (as claimed): sync_tiktok_data fetches no further page once 100
\* videos have been processed, and its loop ends for every sequence of
\* pages, also when the provider keeps answering has_more = true with empty
\* pages.
C24_SyncTerminates ==
    /\ [](sync # NoSync /\ sync.pc = "fetch" => sync.video_count < SYNC_MAX_VIDEOS)
    /\ (sync # NoSync) ~> (sync = NoSync)

\* C25 (as claimed): after any sequence of get_user_videos and
\* sync_tiktok_data calls, also when a video id comes more than once within
\* one sync, video_analytics holds at most one row for a user and a video.
C25_OneRowPerVideo ==
    \A i, j \in 1..Len(video_analytics) :
        (/\ video_analytics[i].user_id = video_analytics[j].user_id
         /\ video_analytics[i].video_id = video_analytics[j].video_id)
        => i = j

====
